---- MODULE Spec2Model ----
(***************************************************************************)
(* Circuit-cutting graph machinery of pennylane/transforms/qcut.py:        *)
(* tape_to_graph builds a directed multigraph from a tape, and             *)
(* replace_wire_cut_node / replace_wire_cut_nodes rewrite WireCut nodes    *)
(* into MeasureNode / PrepareNode pairs.                                   *)
(***************************************************************************)
EXTENDS Integers, Sequences, FiniteSets, TLC

VARIABLES tape, pc, graph, pre, last

vars == <<tape, pc, graph, pre, last>>

(***************************************************************************)
(* Bounds of the explored tapes: the number of operations, the number of   *)
(* measurements of a tape that is only converted, and of a tape whose      *)
(* graph is then rewritten.                                                *)
(***************************************************************************)
MaxOps == 2
MaxMeas == 2
MaxMeasRewrite == 1

Wires == {0, 1}

(***************************************************************************)
(* Objects.  A node is a Python object hashed by identity: kind is its     *)
(* class, (id, sub) its identity and wires its .wires attribute.  An       *)
(* operation of the tape is identified by its position, a measurement by   *)
(* its position (sub = 0) or, for a term of a Tensor observable, by the    *)
(* position of the measurement and the index of the term.  A MeasureNode   *)
(* or PrepareNode is identified by the WireCut it replaces and its wire.   *)
(***************************************************************************)
None == [kind |-> "None", id |-> 0, sub |-> 0, wires |-> <<>>]

Range(s) == {s[i] : i \in 1..Len(s)}

RECURSIVE SortedSeq(_)
SortedSeq(S) ==
    IF S = {} THEN <<>>
    ELSE LET m == CHOOSE x \in S : \A y \in S : x <= y
         IN <<m>> \o SortedSeq(S \ {m})

\* the wires of an operator: a non-empty tuple of distinct wire labels
WireSeqs == {SortedSeq(S) : S \in (SUBSET Wires) \ {{}}}

SeqsUpTo(S, lo, hi) == UNION {[1..n -> S] : n \in lo..hi}

Operation(kind, i, wires) == [kind |-> kind, id |-> i, sub |-> 0, wires |-> wires]

MeasurementProcess(j, t, wires) ==
    [kind |-> "MeasurementProcess", id |-> j, sub |-> t, wires |-> wires]

MeasureNode(node, wire) ==
    [kind |-> "MeasureNode", id |-> node.id, sub |-> 0, wires |-> <<wire>>]

PrepareNode(node, wire) ==
    [kind |-> "PrepareNode", id |-> node.id, sub |-> 0, wires |-> <<wire>>]

isWireCut(op) == op.kind = "WireCut"

(***************************************************************************)
(* Tapes.  tape.operations is a sequence of gates and WireCut markers;     *)
(* tape.measurements a sequence of measurements, each either with a Tensor *)
(* observable (obs = the wires of each term) or without (wires = its own   *)
(* wires, empty for a measurement of the whole state).                     *)
(***************************************************************************)
OpShapes == {"Operation", "WireCut"} \X WireSeqs

OperationSeqs ==
    {[i \in 1..Len(s) |-> Operation(s[i][1], i - 1, s[i][2])] :
        s \in SeqsUpTo(OpShapes, 0, MaxOps)}

PlainMeasurements ==
    {[tensor |-> FALSE, wires |-> ws, obs |-> <<>>] : ws \in WireSeqs \cup {<<>>}}

\* a Tensor observable: two or more terms, each on a wire of its own
TensorObs ==
    {o \in SeqsUpTo({<<w>> : w \in Wires}, 2, Cardinality(Wires)) :
        \A a, b \in 1..Len(o) : a /= b => o[a] /= o[b]}

TensorMeasurements ==
    {[tensor |-> TRUE,
      wires |-> SortedSeq(UNION {Range(o[t]) : t \in 1..Len(o)}),
      obs |-> o] : o \in TensorObs}

MeasurementSeqs(n) == SeqsUpTo(PlainMeasurements \cup TensorMeasurements, 0, n)

Tapes(n) == [operations : OperationSeqs, measurements : MeasurementSeqs(n)]

\* tape.wires: every wire some operation or measurement of the tape acts on
TapeWires(t) ==
    UNION ({Range(t.operations[i].wires) : i \in 1..Len(t.operations)}
           \cup {Range(t.measurements[j].wires) : j \in 1..Len(t.measurements)})

(***************************************************************************)
(* networkx.MultiDiGraph as qcut.py uses it: nodes in insertion order,     *)
(* the order attribute of the nodes, and keyed edges with a wire           *)
(* attribute.                                                              *)
(***************************************************************************)
EmptyGraph == [nodes |-> <<>>, order |-> <<>>, edges |-> {}]

NodeSet(g) == Range(g.nodes)

has_node(g, n) == n \in NodeSet(g)

\* graph.nodes[n]["order"]; order and nodes are parallel sequences
OrderOf(g, n) == g.order[CHOOSE i \in 1..Len(g.nodes) : g.nodes[i] = n]

\* graph.add_node(n, order=order): a node already present keeps its place
add_node(g, n, order) ==
    IF has_node(g, n)
    THEN [g EXCEPT !.order =
            [i \in 1..Len(g.nodes) |-> IF g.nodes[i] = n THEN order ELSE g.order[i]]]
    ELSE [g EXCEPT !.nodes = Append(@, n), !.order = Append(@, order)]

\* the key networkx gives a new edge u -> v: the number of edges u -> v
\* there are, or the next integer after it that is not a key yet
new_edge_key(g, u, v) ==
    LET keys == {e.key : e \in {x \in g.edges : x.u = u /\ x.v = v}}
        n == Cardinality(keys)
    IN CHOOSE k \in n..(2 * n) : k \notin keys /\ \A j \in n..(k - 1) : j \in keys

\* graph.add_edge(u, v, wire=wire); both ends are nodes of the graph already
add_edge(g, u, v, wire) ==
    [g EXCEPT !.edges = @ \cup
        {[u |-> u, v |-> v, key |-> new_edge_key(g, u, v), wire |-> wire]}]

\* graph.remove_node(n): the node and every edge at it
remove_node(g, n) ==
    LET keep == {i \in 1..Len(g.nodes) : g.nodes[i] /= n}
        idx == SortedSeq(keep)
    IN [nodes |-> [i \in 1..Len(idx) |-> g.nodes[idx[i]]],
        order |-> [i \in 1..Len(idx) |-> g.order[idx[i]]],
        edges |-> {e \in g.edges : e.u /= n /\ e.v /= n}]

(***************************************************************************)
(* _add_operator_node: the node, then for each of its wires an edge from   *)
(* the latest node on that wire, which the new node then becomes.          *)
(***************************************************************************)
\* faulty variant: the latest node of a wire is set once and never moved on
_add_operator_node_setdefault(g, op, order, wire_latest_node) ==
    LET RECURSIVE loop(_, _, _)
        loop(gr, wl, i) ==
            IF i > Len(op.wires) THEN [graph |-> gr, wire_latest_node |-> wl]
            ELSE LET wire == op.wires[i]
                     g1 == IF wl[wire] /= None
                           THEN add_edge(gr, wl[wire], op, wire)
                           ELSE gr
                 IN loop(g1, IF wl[wire] = None THEN [wl EXCEPT ![wire] = op] ELSE wl,
                         i + 1)
    IN loop(add_node(g, op, order), wire_latest_node, 1)

_add_operator_node(g, op, order, wire_latest_node) ==
    LET RECURSIVE loop(_, _, _)
        loop(gr, wl, i) ==
            IF i > Len(op.wires) THEN [graph |-> gr, wire_latest_node |-> wl]
            ELSE LET wire == op.wires[i]
                     g1 == IF wl[wire] /= None
                           THEN add_edge(gr, wl[wire], op, wire)
                           ELSE gr
                 IN loop(g1, [wl EXCEPT ![wire] = op], i + 1)
    IN loop(add_node(g, op, order), wire_latest_node, 1)

\* for order, op in enumerate(tape.operations)
RECURSIVE OperationsLoop(_, _, _)
OperationsLoop(st, operations, i) ==
    IF i > Len(operations) THEN st
    ELSE OperationsLoop(
            _add_operator_node(st.graph, operations[i], i - 1, st.wire_latest_node),
            operations, i + 1)

\* for o in obs.obs: every term of a Tensor observable with the same order
RECURSIVE TensorLoop(_, _, _, _, _)
TensorLoop(st, m, j, t, order) ==
    IF t > Len(m.obs) THEN st
    ELSE TensorLoop(
            _add_operator_node(st.graph, MeasurementProcess(j, t, m.obs[t]), order,
                               st.wire_latest_node),
            m, j, t + 1, order)

\* for m in tape.measurements
RECURSIVE MeasurementsLoop(_, _, _, _)
MeasurementsLoop(st, measurements, j, order) ==
    IF j > Len(measurements) THEN st
    ELSE LET m == measurements[j]
         IN IF m.tensor
            THEN MeasurementsLoop(TensorLoop(st, m, j, 1, order), measurements, j + 1,
                                  order)
            ELSE MeasurementsLoop(
                    _add_operator_node(st.graph, MeasurementProcess(j, 0, m.wires),
                                       order, st.wire_latest_node),
                    measurements, j + 1, order + 1)

(***************************************************************************)
(* tape_to_graph.  With no operation the loop variable order is never      *)
(* bound and "order += 1" raises UnboundLocalError.                        *)
(***************************************************************************)
\* faulty variant: the measurements start from a fresh wire_latest_node
tape_to_graph_fresh_latest(t) ==
    IF Len(t.operations) = 0
    THEN [error |-> "UnboundLocalError", graph |-> EmptyGraph]
    ELSE LET s0 == [graph |-> EmptyGraph,
                    wire_latest_node |-> [w \in TapeWires(t) |-> None]]
             s1 == OperationsLoop(s0, t.operations, 1)
             order == (Len(t.operations) - 1) + 1
             s2 == MeasurementsLoop([s1 EXCEPT !.wire_latest_node = s0.wire_latest_node],
                                    t.measurements, 1, order)
         IN [error |-> "none", graph |-> s2.graph]

tape_to_graph(t) ==
    IF Len(t.operations) = 0
    THEN [error |-> "UnboundLocalError", graph |-> EmptyGraph]
    ELSE LET s0 == [graph |-> EmptyGraph,
                    wire_latest_node |-> [w \in TapeWires(t) |-> None]]
             s1 == OperationsLoop(s0, t.operations, 1)
             order == (Len(t.operations) - 1) + 1
             s2 == MeasurementsLoop(s1, t.measurements, 1, order)
         IN [error |-> "none", graph |-> s2.graph]

(***************************************************************************)
(* replace_wire_cut_node.  graph.pred[node] raises KeyError for a node     *)
(* that is not in the graph, before anything is changed.                   *)
(***************************************************************************)
\* predecessor_on_wire.get(wire, None): the source of an edge into node
\* labelled wire
predecessor_on_wire(g, node, wire) ==
    LET into == {e \in g.edges : e.v = node /\ e.wire = wire}
    IN IF into = {} THEN None ELSE (CHOOSE e \in into : TRUE).u

\* successor_on_wire.get(wire, None)
successor_on_wire(g, node, wire) ==
    LET out == {e \in g.edges : e.u = node /\ e.wire = wire}
    IN IF out = {} THEN None ELSE (CHOOSE e \in out : TRUE).v

\* faulty variant: the predecessor is wired to the PrepareNode
ReplaceOnWire_pred_to_prep(g, gr, node, wire, order) ==
    LET predecessor == predecessor_on_wire(g, node, wire)
        successor == successor_on_wire(g, node, wire)
        meas == MeasureNode(node, wire)
        prep == PrepareNode(node, wire)
        g1 == add_node(gr, meas, order)
        g2 == add_node(g1, prep, order)
        g3 == add_edge(g2, meas, prep, wire)
        g4 == IF predecessor /= None THEN add_edge(g3, predecessor, prep, wire) ELSE g3
    IN IF successor /= None THEN add_edge(g4, prep, successor, wire) ELSE g4

\* faulty variant: the PrepareNode gets the next order
ReplaceOnWire_prep_order(g, gr, node, wire, order) ==
    LET predecessor == predecessor_on_wire(g, node, wire)
        successor == successor_on_wire(g, node, wire)
        meas == MeasureNode(node, wire)
        prep == PrepareNode(node, wire)
        g1 == add_node(gr, meas, order)
        g2 == add_node(g1, prep, order + 1)
        g3 == add_edge(g2, meas, prep, wire)
        g4 == IF predecessor /= None THEN add_edge(g3, predecessor, meas, wire) ELSE g3
    IN IF successor /= None THEN add_edge(g4, prep, successor, wire) ELSE g4

\* faulty variant: a successor that is itself a WireCut is not wired
ReplaceOnWire_skip_cut_successor(g, gr, node, wire, order) ==
    LET predecessor == predecessor_on_wire(g, node, wire)
        successor == successor_on_wire(g, node, wire)
        meas == MeasureNode(node, wire)
        prep == PrepareNode(node, wire)
        g1 == add_node(gr, meas, order)
        g2 == add_node(g1, prep, order)
        g3 == add_edge(g2, meas, prep, wire)
        g4 == IF predecessor /= None THEN add_edge(g3, predecessor, meas, wire) ELSE g3
    IN IF successor /= None /\ ~isWireCut(successor) THEN add_edge(g4, prep, successor, wire) ELSE g4

\* the body of "for wire in node.wires": g is the graph before the marker
\* was removed, in which its neighbours were captured, gr the graph so far
ReplaceOnWire(g, gr, node, wire, order) ==
    LET predecessor == predecessor_on_wire(g, node, wire)
        successor == successor_on_wire(g, node, wire)
        meas == MeasureNode(node, wire)
        prep == PrepareNode(node, wire)
        g1 == add_node(gr, meas, order)
        g2 == add_node(g1, prep, order)
        g3 == add_edge(g2, meas, prep, wire)
        g4 == IF predecessor /= None THEN add_edge(g3, predecessor, meas, wire) ELSE g3
    IN IF successor /= None THEN add_edge(g4, prep, successor, wire) ELSE g4

\* faulty variant: a node that is not in the graph is skipped without an error
replace_wire_cut_node_ignore_absent(node, g) ==
    IF ~has_node(g, node) THEN [error |-> "none", graph |-> g]
    ELSE LET order == OrderOf(g, node)
             RECURSIVE loop(_, _)
             loop(gr, i) ==
                 IF i > Len(node.wires) THEN gr
                 ELSE loop(ReplaceOnWire(g, gr, node, node.wires[i], order), i + 1)
         IN [error |-> "none", graph |-> loop(remove_node(g, node), 1)]

\* faulty variant: only the first wire of the marker is rewritten
replace_wire_cut_node_first_wire(node, g) ==
    IF ~has_node(g, node) THEN [error |-> "KeyError", graph |-> g]
    ELSE [error |-> "none",
          graph |-> ReplaceOnWire(g, remove_node(g, node), node, node.wires[1],
                                  OrderOf(g, node))]

replace_wire_cut_node(node, g) ==
    IF ~has_node(g, node) THEN [error |-> "KeyError", graph |-> g]
    ELSE LET order == OrderOf(g, node)
             RECURSIVE loop(_, _)
             loop(gr, i) ==
                 IF i > Len(node.wires) THEN gr
                 ELSE loop(ReplaceOnWire(g, gr, node, node.wires[i], order), i + 1)
         IN [error |-> "none", graph |-> loop(remove_node(g, node), 1)]

(***************************************************************************)
(* replace_wire_cut_nodes: one pass over the nodes the graph holds when    *)
(* the pass starts.                                                        *)
(***************************************************************************)
\* faulty variant: the pass ends after the first WireCut it replaces
replace_wire_cut_nodes_first_only(g) ==
    LET cuts == {i \in 1..Len(g.nodes) : isWireCut(g.nodes[i])}
    IN IF cuts = {} THEN [error |-> "none", graph |-> g]
       ELSE replace_wire_cut_node(g.nodes[CHOOSE i \in cuts : \A j \in cuts : i <= j], g)

replace_wire_cut_nodes(g) ==
    LET snapshot == g.nodes
        RECURSIVE loop(_, _)
        loop(r, i) ==
            IF i > Len(snapshot) \/ r.error /= "none" THEN r
            ELSE loop(IF isWireCut(snapshot[i])
                      THEN replace_wire_cut_node(snapshot[i], r.graph)
                      ELSE r,
                      i + 1)
    IN loop([error |-> "none", graph |-> g], 1)

(***************************************************************************)
(* The state machine: a tape is drawn, tape_to_graph converts it, and the  *)
(* caller then rewrites the graph in place, marker by marker or in one     *)
(* pass.  pre is the graph before the last call and last the call.         *)
(***************************************************************************)
NoCall == [fn |-> "none", node |-> None, result |-> "none"]

\* the WireCut objects of the tape, which the caller holds
CutsOf(t) == {t.operations[i] : i \in {k \in 1..Len(t.operations) : isWireCut(t.operations[k])}}

Init ==
    /\ tape \in Tapes(MaxMeasRewrite)
    /\ pc = "tape"
    /\ graph = EmptyGraph
    /\ pre = EmptyGraph
    /\ last = NoCall

TapeToGraph ==
    /\ pc = "tape"
    /\ LET r == tape_to_graph(tape)
       IN /\ pc' = IF r.error = "none" THEN "graph" ELSE "error"
          /\ graph' = r.graph
          /\ last' = [fn |-> "tape_to_graph", node |-> None, result |-> r.error]
    /\ pre' = graph
    /\ UNCHANGED tape

ReplaceWireCutNode(node) ==
    /\ pc = "graph"
    /\ LET r == replace_wire_cut_node(node, graph)
       IN /\ graph' = r.graph
          /\ last' = [fn |-> "replace_wire_cut_node", node |-> node, result |-> r.error]
    /\ pre' = graph
    /\ UNCHANGED <<tape, pc>>

ReplaceWireCutNodes ==
    /\ pc = "graph"
    /\ LET r == replace_wire_cut_nodes(graph)
       IN /\ graph' = r.graph
          /\ last' = [fn |-> "replace_wire_cut_nodes", node |-> None, result |-> r.error]
    /\ pre' = graph
    /\ UNCHANGED <<tape, pc>>

Next ==
    \/ TapeToGraph
    \/ \E node \in CutsOf(tape) : ReplaceWireCutNode(node)
    \/ ReplaceWireCutNodes

Spec == Init /\ [][Next]_vars

(***************************************************************************)
(* The conversion alone, on tapes with more measurements.                  *)
(***************************************************************************)
InitBuild ==
    /\ tape \in Tapes(MaxMeas)
    /\ pc = "tape"
    /\ graph = EmptyGraph
    /\ pre = EmptyGraph
    /\ last = NoCall

NextBuild == TapeToGraph

SpecBuild == InitBuild /\ [][NextBuild]_vars

(***************************************************************************)
(* Vocabulary of the properties.                                           *)
(***************************************************************************)
EdgesOn(g, w) == {e \in g.edges : e.wire = w}

InEdges(g, n, w) == {e \in EdgesOn(g, w) : e.v = n}

OutEdges(g, n, w) == {e \in EdgesOn(g, w) : e.u = n}

EndsOn(g, w) == {e.u : e \in EdgesOn(g, w)} \cup {e.v : e \in EdgesOn(g, w)}

\* the nodes met from n along the edges labelled w, in at most fuel steps
RECURSIVE Walk(_, _, _, _)
Walk(g, w, n, fuel) ==
    IF fuel = 0 \/ OutEdges(g, n, w) = {} THEN {n}
    ELSE {n} \cup UNION {Walk(g, w, e.v, fuel - 1) : e \in OutEdges(g, n, w)}

\* the edges labelled w form one unbranched path (or there is none)
SinglePath(g, w) ==
    LET starts == {n \in EndsOn(g, w) : InEdges(g, n, w) = {}}
    IN /\ \A n \in EndsOn(g, w) : /\ Cardinality(InEdges(g, n, w)) <= 1
                                 /\ Cardinality(OutEdges(g, n, w)) <= 1
       /\ EdgesOn(g, w) /= {} =>
            /\ Cardinality(starts) = 1
            /\ \A n \in starts :
                 Walk(g, w, n, Cardinality(EdgesOn(g, w))) = EndsOn(g, w)
            /\ Cardinality(EndsOn(g, w)) = Cardinality(EdgesOn(g, w)) + 1

NoWireCut(g) == \A n \in NodeSet(g) : ~isWireCut(n)

Built == pc = "graph" /\ last.fn = "tape_to_graph"

Replaced == last.fn = "replace_wire_cut_node" /\ last.result = "none"

NewNodes == NodeSet(graph) \ NodeSet(pre)

\* the nodes tape_to_graph is to add, in the order of the tape: the
\* operations, then the measurements, a Tensor observable term by term
RECURSIVE FlatMeasurements(_, _)
FlatMeasurements(ms, j) ==
    IF j > Len(ms) THEN <<>>
    ELSE (IF ms[j].tensor
          THEN [t \in 1..Len(ms[j].obs) |-> MeasurementProcess(j, t, ms[j].obs[t])]
          ELSE <<MeasurementProcess(j, 0, ms[j].wires)>>)
         \o FlatMeasurements(ms, j + 1)

FlatNodes(t) == t.operations \o FlatMeasurements(t.measurements, 1)

ActsOn(n, w) == w \in Range(n.wires)

\* C1: in the graph tape_to_graph returns and after every sequence of
\* replace_wire_cut_node / replace_wire_cut_nodes calls, for every wire w no
\* node has two incoming or two outgoing edges labelled w and the edges
\* labelled w form a single unbranched path.
C1_ChainInvariant == pc = "graph" => \A w \in Wires : SinglePath(graph, w)

C1_Witness ==
    /\ Replaced
    /\ Len(last.node.wires) = 2
    /\ \E n \in NodeSet(graph) : isWireCut(n)
    /\ \A w \in Wires : Cardinality(EdgesOn(graph, w)) >= 3

\* C2: tape_to_graph builds exactly the per-wire successor relation: there
\* is an edge u -> v labelled w (and exactly one) iff u and v act on w, u
\* comes before v in the tape and no node between them acts on w.
C2_SuccessorRelation ==
    Built =>
      LET f == FlatNodes(tape)
      IN /\ NodeSet(graph) = Range(f)
         /\ Len(graph.nodes) = Len(f)
         /\ \A e \in graph.edges : e.u \in Range(f) /\ e.v \in Range(f)
         /\ \A i, j \in 1..Len(f) : \A w \in Wires :
              Cardinality({e \in EdgesOn(graph, w) : e.u = f[i] /\ e.v = f[j]})
                = IF /\ i < j
                     /\ ActsOn(f[i], w)
                     /\ ActsOn(f[j], w)
                     /\ \A k \in (i + 1)..(j - 1) : ~ActsOn(f[k], w)
                  THEN 1 ELSE 0

C2_Witness ==
    /\ Built
    /\ \E u, v \in NodeSet(graph) :
         /\ Cardinality({e \in graph.edges : e.u = u /\ e.v = v}) = 2
         /\ \E x \in NodeSet(graph) : \E w \in Wires :
              InEdges(graph, x, w) = {} /\ OutEdges(graph, x, w) /= {} /\ x /= u

\* C3: after replace_wire_cut_node on a marker of the graph the marker is
\* gone and, for each wire w of the marker, there is exactly one new
\* MeasureNode and one new PrepareNode on w, joined by one edge labelled w;
\* the only other edge at the MeasureNode comes from the marker's former
\* predecessor on w and the only other edge at the PrepareNode goes to its
\* former successor on w, each absent exactly when the marker had none.
C3_Postcondition ==
    Replaced =>
      LET node == last.node
      IN /\ ~has_node(graph, node)
         /\ \A i \in 1..Len(node.wires) :
              LET w == node.wires[i]
                  sinks == {n \in NewNodes : n.kind = "MeasureNode" /\ n.wires = <<w>>}
                  sources == {n \in NewNodes : n.kind = "PrepareNode" /\ n.wires = <<w>>}
              IN /\ Cardinality(sinks) = 1
                 /\ Cardinality(sources) = 1
                 /\ \A s \in sinks : \A p \in sources :
                      /\ {[u |-> e.u, v |-> e.v, wire |-> e.wire] :
                             e \in {x \in graph.edges : x.u = s}}
                           = {[u |-> s, v |-> p, wire |-> w]}
                      /\ Cardinality({e \in graph.edges : e.u = s}) = 1
                      /\ {[u |-> e.u, wire |-> e.wire] :
                             e \in {x \in graph.edges : x.v = s}}
                           = {[u |-> e.u, wire |-> w] : e \in InEdges(pre, node, w)}
                      /\ Cardinality({e \in graph.edges : e.v = s})
                           = Cardinality(InEdges(pre, node, w))
                      /\ {e \in graph.edges : e.v = p} = {e \in graph.edges : e.u = s}
                      /\ {[v |-> e.v, wire |-> e.wire] :
                             e \in {x \in graph.edges : x.u = p}}
                           = {[v |-> e.v, wire |-> w] : e \in OutEdges(pre, node, w)}
                      /\ Cardinality({e \in graph.edges : e.u = p})
                           = Cardinality(OutEdges(pre, node, w))

\* scenario B: a marker on two wires with a predecessor on wire 0 only and
\* a successor on wire 1 only
C3_Witness ==
    /\ Replaced
    /\ last.node.wires = <<0, 1>>
    /\ InEdges(pre, last.node, 0) /= {} /\ OutEdges(pre, last.node, 0) = {}
    /\ InEdges(pre, last.node, 1) = {} /\ OutEdges(pre, last.node, 1) /= {}

\* C4: for every edge u -> v of a reachable graph order(u) <= order(v), and
\* the nodes replace_wire_cut_node creates carry the order of the marker.
C4_OrderMonotonic ==
    /\ pc = "graph" =>
         \A e \in graph.edges : OrderOf(graph, e.u) <= OrderOf(graph, e.v)
    /\ Replaced =>
         \A n \in NewNodes : OrderOf(graph, n) = OrderOf(pre, last.node)

C4_Witness ==
    /\ Replaced
    /\ OrderOf(pre, last.node) = 1
    /\ \E e \in graph.edges :
         /\ e.u \in NewNodes /\ e.v \notin NewNodes
         /\ OrderOf(graph, e.v) > OrderOf(graph, e.u)
    /\ \E e \in graph.edges :
         /\ e.v \in NewNodes /\ e.u \notin NewNodes
         /\ OrderOf(graph, e.u) < OrderOf(graph, e.v)

\* C5: replace_wire_cut_node on a marker with k wires leaves 2k - 1 nodes
\* more than before, one edge more on each wire of the marker and as many
\* edges as before on every other wire.
C5_CountConservation ==
    Replaced =>
      /\ Len(graph.nodes) = Len(pre.nodes) - 1 + 2 * Len(last.node.wires)
      /\ Cardinality(NodeSet(graph)) = Len(graph.nodes)
      /\ \A w \in Wires :
           Cardinality(EdgesOn(graph, w))
             = Cardinality(EdgesOn(pre, w)) + (IF ActsOn(last.node, w) THEN 1 ELSE 0)

C5_Witness ==
    /\ Replaced
    /\ last.node.wires = <<0>>
    /\ InEdges(pre, last.node, 0) /= {} /\ OutEdges(pre, last.node, 0) /= {}
    /\ EdgesOn(pre, 1) /= {}

\* C6: replace_wire_cut_nodes leaves no WireCut node behind, and on a graph
\* without WireCut nodes (as after a first run) it changes nothing.
C6_Idempotent ==
    last.fn = "replace_wire_cut_nodes" =>
      /\ last.result = "none"
      /\ NoWireCut(graph)
      /\ NoWireCut(pre) => graph = pre

\* a second run, after a first that replaced two markers adjacent on a wire
C6_Witness ==
    /\ last.fn = "replace_wire_cut_nodes"
    /\ NoWireCut(pre)
    /\ \E e \in pre.edges : e.u.kind = "PrepareNode" /\ e.v.kind = "MeasureNode"

\* C7: replace_wire_cut_node with a node that is not in the graph fails
\* with KeyError and leaves the graph as it was.
C7_AbsentNode ==
    (last.fn = "replace_wire_cut_node" /\ ~has_node(pre, last.node)) =>
      last.result = "KeyError" /\ graph = pre

\* a marker of the tape that an earlier call replaced
C7_Witness ==
    /\ last.fn = "replace_wire_cut_node"
    /\ last.node \in CutsOf(tape)
    /\ ~has_node(pre, last.node)
    /\ \E n \in NodeSet(pre) : n.kind = "MeasureNode" /\ n.id = last.node.id

\* C8: once every marker is replaced, by single calls in any order or by
\* the batch, the graph is the one replace_wire_cut_nodes makes of the built
\* graph (the created nodes are named by the marker and wire they replace).
SameGraph(g, h) ==
    /\ NodeSet(g) = NodeSet(h)
    /\ Len(g.nodes) = Len(h.nodes)
    /\ \A n \in NodeSet(g) : OrderOf(g, n) = OrderOf(h, n)
    /\ g.edges = h.edges

C8_Independent ==
    (pc = "graph" /\ NoWireCut(graph)) =>
      SameGraph(graph, replace_wire_cut_nodes(tape_to_graph(tape).graph).graph)

\* two markers adjacent on a wire, the later one replaced first
C8_Witness ==
    /\ Replaced
    /\ NoWireCut(graph)
    /\ Len(tape.operations) >= 2
    /\ last.node = tape.operations[1]
    /\ isWireCut(tape.operations[2])
    /\ \E e \in tape_to_graph(tape).graph.edges :
         e.u = tape.operations[1] /\ e.v = tape.operations[2]

\* C9: in the graph tape_to_graph returns two distinct nodes have the same
\* order iff they are terms of the same Tensor measurement, and every
\* measurement order is greater than every operation order.
C9_OrderTies ==
    Built =>
      /\ \A m, n \in NodeSet(graph) :
           m /= n =>
             ((OrderOf(graph, m) = OrderOf(graph, n))
                <=> /\ m.kind = "MeasurementProcess" /\ n.kind = "MeasurementProcess"
                    /\ m.id = n.id
                    /\ m.sub /= 0 /\ n.sub /= 0)
      /\ \A m, n \in NodeSet(graph) :
           (m.kind = "MeasurementProcess" /\ n.kind /= "MeasurementProcess")
             => OrderOf(graph, m) > OrderOf(graph, n)

\* C10: tape_to_graph returns a graph for every tape, also one without
\* operations.
C10_ReturnsGraph == last.fn = "tape_to_graph" => last.result = "none"

====
